---- MODULE Spec2Model ----
(***************************************************************************)
(* A model of pdc_scraper.py: five source handlers append opportunities    *)
(* to the module-level list found_opps, then send_slack_alert              *)
(* deduplicates it by url, truncates it to 15 and delivers the summary.    *)
(* Texts are strings; text operations work on their characters.            *)
(***************************************************************************)
EXTENDS Integers, Sequences, FiniteSets, TLC

VARIABLES pc, loop_i, found_opps, stdout, fetched, SLACK_WEBHOOK_URL, shown, posted, printed

vars == <<pc, loop_i, found_opps, stdout, fetched, SLACK_WEBHOOK_URL, shown, posted, printed>>

(***************************************************************************)
(* Strings.                                                                *)
(***************************************************************************)
UpperCase == "ABCDEFGHIJKLMNOPQRSTUVWXYZ"

LowerCase == "abcdefghijklmnopqrstuvwxyz"

UpperToLower ==
  [c \in {SubSeq(UpperCase, i, i) : i \in 1..Len(UpperCase)} |->
     LET i == CHOOSE j \in 1..Len(UpperCase) : SubSeq(UpperCase, j, j) = c
     IN  SubSeq(LowerCase, i, i)]

\* str.lower() on one character
LowerChar(c) == IF c \in DOMAIN UpperToLower THEN UpperToLower[c] ELSE c

RECURSIVE Lower(_)
\* str.lower()
Lower(s) ==
  IF Len(s) = 0 THEN ""
  ELSE LowerChar(SubSeq(s, 1, 1)) \o Lower(SubSeq(s, 2, Len(s)))

\* Python's `sub in text` on strings
Contains(sub, text) ==
  \E i \in 1..(Len(text) - Len(sub) + 1) : SubSeq(text, i, i + Len(sub) - 1) = sub

\* any(p(x) for x in list)
AnyKeyword(keyword_list, text) ==
  \E k \in 1..Len(keyword_list) : Contains(Lower(keyword_list[k]), text)

(***************************************************************************)
(* Configuration: keyword lists.                                           *)
(***************************************************************************)
PAIN_KEYWORDS ==
  <<"quit", "confidence", "anxiety", "scared", "nervous", "toxic coach",
    "unfair", "politics", "bench", "playing time", "struggling", "lost passion">>

WEALTH_KEYWORDS ==
  <<"prep school", "tuition", "private school", "boarding school",
    "consultant", "recruiting service", "showcase", "ivy league",
    "financial aid", "investment", "is it worth it", "advisor">>

PARENT_KEYWORDS ==
  <<"son", "daughter", "kid", "child", "12yo", "13yo", "14yo", "hs", "my boy">>

\* is_relevant(text, keyword_list)
is_relevant(text, keyword_list) ==
  IF Len(text) = 0 THEN FALSE
  ELSE AnyKeyword(keyword_list, Lower(text))

(***************************************************************************)
(* Results of a loop body: the opportunities it appended to found_opps and *)
(* whether it stopped by raising an exception.                             *)
(***************************************************************************)
Returned(appended) == [appended |-> appended, raised |-> FALSE]

Raised(appended) == [appended |-> appended, raised |-> TRUE]

\* no except clause: the exception leaves the handler
NoExcept(r) == r

\* `except Exception as e: print(...)`: the exception stops here
except_Exception(r) == [appended |-> r.appended, raised |-> FALSE]

Opp(source, title, url, summary, type) ==
  [source |-> source, title |-> title, url |-> url, summary |-> summary, type |-> type]

\* entry.title and entry.link: feedparser raises AttributeError for a missing key
HasTitleLink(entry) == {"title", "link"} \subseteq DOMAIN entry

(***************************************************************************)
(* get_hoopdirt_news.  A published string is either in the format          *)
(* "%a, %d %b %Y %H:%M:%S %z" (fmt = "rfc822": a local time in seconds and *)
(* a UTC offset in seconds) or in some other format.                       *)
(***************************************************************************)
HOURS == 24

\* timedelta(hours=24), in seconds
Window == HOURS * 3600

\* datetime.strptime(...) succeeds
Parses(published) == published.fmt = "rfc822"

\* the instant (seconds, UTC) of the aware datetime strptime returns
Instant(published) == published.local - published.off

\* the comparison with >= in place of >
TooOldAtEdge(now, published) == now - Instant(published) >= Window

\* datetime.now(published.tzinfo) - published > timedelta(hours=24)
TooOld(now, published) == now - Instant(published) > Window

HoopDirtOpp(entry) ==
  Opp("HoopDirt", entry.title, entry.link, "Coaching Move / Industry Rumor", "industry")

RECURSIVE HoopDirtLoop(_, _, _, _)
\* for entry in feed.entries, from entry i on, acc appended so far
HoopDirtLoop(entries, now, i, acc) ==
  IF i > Len(entries) THEN Returned(acc)
  ELSE LET entry == entries[i] IN
    IF "published" \notin DOMAIN entry THEN Raised(acc)
    ELSE IF ~Parses(entry.published) THEN Raised(acc)
    ELSE IF TooOld(now, entry.published) THEN HoopDirtLoop(entries, now, i + 1, acc)
    ELSE IF ~HasTitleLink(entry) THEN Raised(acc)
    ELSE HoopDirtLoop(entries, now, i + 1, Append(acc, HoopDirtOpp(entry)))

\* the try body of get_hoopdirt_news
HoopDirtTry(feed, now) ==
  IF feed.status # "ok" THEN Raised(<<>>)
  ELSE HoopDirtLoop(feed.entries, now, 1, <<>>)

(***************************************************************************)
(* get_google_alerts                                                       *)
(***************************************************************************)
GOOGLE_TOP == 5

queries ==
  << [q |-> "job_query", summary |-> "Job Vacancy", type |-> "industry"],
     [q |-> "partner_query", summary |-> "Potential Wealth Partner", type |-> "partner"] >>

\* list[:n]
Slice(list, n) == SubSeq(list, 1, IF Len(list) < n THEN Len(list) ELSE n)

RECURSIVE GoogleLoop(_, _, _, _)
GoogleLoop(entries, query, i, acc) ==
  IF i > Len(entries) THEN Returned(acc)
  ELSE LET entry == entries[i] IN
    IF ~HasTitleLink(entry) THEN Raised(acc)
    ELSE GoogleLoop(entries, query, i + 1,
           Append(acc, Opp("Google News", entry.title, entry.link,
                           query.summary, query.type)))

\* the try body of one query
GoogleTry(feed, query) ==
  IF feed.status # "ok" THEN Raised(<<>>)
  ELSE GoogleLoop(Slice(feed.entries, GOOGLE_TOP), query, 1, <<>>)

(***************************************************************************)
(* get_ncaa_market                                                         *)
(***************************************************************************)
NcaaMatches(title) ==
  Contains("basketball", Lower(title)) \/ Contains("development", Lower(title))

RECURSIVE NcaaLoop(_, _, _)
NcaaLoop(entries, i, acc) ==
  IF i > Len(entries) THEN Returned(acc)
  ELSE LET entry == entries[i] IN
    IF "title" \notin DOMAIN entry THEN Raised(acc)
    ELSE IF ~NcaaMatches(entry.title) THEN NcaaLoop(entries, i + 1, acc)
    ELSE IF "link" \notin DOMAIN entry THEN Raised(acc)
    ELSE NcaaLoop(entries, i + 1,
           Append(acc, Opp("NCAA Market", entry.title, entry.link,
                           "Collegiate Role", "industry")))

NcaaTry(feed) ==
  IF feed.status # "ok" THEN Raised(<<>>)
  ELSE NcaaLoop(feed.entries, 1, <<>>)

(***************************************************************************)
(* get_college_confidential                                                *)
(***************************************************************************)
CC_TOP == 10

RECURSIVE CollegeLoop(_, _, _)
CollegeLoop(entries, i, acc) ==
  IF i > Len(entries) THEN Returned(acc)
  ELSE LET entry == entries[i] IN
    IF ~HasTitleLink(entry) THEN Raised(acc)
    ELSE CollegeLoop(entries, i + 1,
           Append(acc, Opp("College Confidential", entry.title, entry.link,
                           "High-Net-Worth Discussion", "wealth")))

CollegeTry(feed) ==
  IF feed.status # "ok" THEN Raised(<<>>)
  ELSE CollegeLoop(Slice(feed.entries, CC_TOP), 1, <<>>)

(***************************************************************************)
(* get_reddit_monitor.  A post is the record post['data']; a key it lacks  *)
(* is absent from its domain.                                              *)
(***************************************************************************)
subreddits == <<"BasketballTips", "YouthSports", "Parenting", "basketballcoach">>

\* any(k in full_text for k in [...])
AnyIn(keyword_list, text) ==
  \E k \in 1..Len(keyword_list) : Contains(keyword_list[k], text)

\* f"{p['title']} {p.get('selftext', '')}".lower()
FullText(p) ==
  Lower(p.title \o " " \o (IF "selftext" \in DOMAIN p THEN p.selftext ELSE ""))

RedditOpp(p, sub, summary, type) ==
  Opp("Reddit (r/" \o sub \o ")", p.title, "https://www.reddit.com" \o p.permalink,
      summary, type)

\* the rule chain of the loop body: the type a post's text gets
RedditRulePainFirst(full_text) ==
  IF ~AnyIn(PARENT_KEYWORDS, full_text) THEN "none"
  ELSE IF is_relevant(full_text, PAIN_KEYWORDS) THEN "pain"
  ELSE IF is_relevant(full_text, WEALTH_KEYWORDS) THEN "wealth"
  ELSE "none"

RedditRule(full_text) ==
  IF ~AnyIn(PARENT_KEYWORDS, full_text) THEN "none"
  ELSE IF is_relevant(full_text, WEALTH_KEYWORDS) THEN "wealth"
  ELSE IF is_relevant(full_text, PAIN_KEYWORDS) THEN "pain"
  ELSE "none"

RedditSummary(type) ==
  IF type = "wealth" THEN "Investment/Advisory Question"
  ELSE "Parent Pain Point (Confidence/Politics)"

RECURSIVE RedditLoop(_, _, _, _)
\* for post in data['data']['children']
RedditLoop(children, sub, i, acc) ==
  IF i > Len(children) THEN Returned(acc)
  ELSE LET p == children[i] IN
    IF "title" \notin DOMAIN p THEN Raised(acc)
    ELSE LET type == RedditRule(FullText(p)) IN
      IF type = "none" THEN RedditLoop(children, sub, i + 1, acc)
      ELSE IF "permalink" \notin DOMAIN p THEN Raised(acc)
      ELSE RedditLoop(children, sub, i + 1,
             Append(acc, RedditOpp(p, sub, RedditSummary(type), type)))

\* the try body for one subreddit
RedditTry(response, sub) ==
  IF response.status # "ok" THEN Raised(<<>>)
  ELSE RedditLoop(response.entries, sub, 1, <<>>)

(***************************************************************************)
(* The handlers: each try body under its except clause.  A handler's       *)
(* result: what it appended, the lines it printed, and whether an          *)
(* exception left it.                                                      *)
(***************************************************************************)
Handled(t, error_line) ==
  LET r == IF t.raised THEN except_Exception(t) ELSE t
  IN  [appended |-> r.appended, raised |-> r.raised,
       lines |-> IF t.raised /\ ~r.raised THEN <<error_line>> ELSE <<>>]

get_hoopdirt_news(feed, now) ==
  LET h == Handled(HoopDirtTry(feed, now), "Error fetching HoopDirt")
  IN  [h EXCEPT !.lines = <<"Checking HoopDirt...">> \o @]

\* one iteration of `for q, summary, type_ in queries`
get_google_alerts(feed, qi) ==
  LET h == Handled(GoogleTry(feed, queries[qi]),
                   "Error google search '" \o queries[qi].q \o "'")
  IN  [h EXCEPT !.lines = (IF qi = 1 THEN <<"Checking Google News...">> ELSE <<>>) \o @]

get_ncaa_market(feed) ==
  LET h == Handled(NcaaTry(feed), "Error fetching NCAA")
  IN  [h EXCEPT !.lines = <<"Checking NCAA Market...">> \o @]

get_college_confidential(feed) ==
  LET h == Handled(CollegeTry(feed), "Error fetching College Confidential")
  IN  [h EXCEPT !.lines = <<"Checking College Confidential...">> \o @]

\* one iteration of `for sub in subreddits`
get_reddit_monitor(response, si) ==
  LET h == Handled(RedditTry(response, subreddits[si]),
                   "Error fetching r/" \o subreddits[si])
  IN  [h EXCEPT !.lines = (IF si = 1 THEN <<"Checking Reddit...">> ELSE <<>>) \o @]

(***************************************************************************)
(* send_slack_alert                                                        *)
(***************************************************************************)
SLACK_LIMIT == 15

\* a list in place of the dict: every item is kept
DictSetAppend(d, k, v) == Append(d, [key |-> k, value |-> v])

\* d[k] = v on a dict kept as its items in insertion order: a key already
\* present keeps its place and takes the new value
DictSet(d, k, v) ==
  IF \E j \in 1..Len(d) : d[j].key = k
    THEN [j \in 1..Len(d) |-> IF d[j].key = k THEN [key |-> k, value |-> v] ELSE d[j]]
    ELSE Append(d, [key |-> k, value |-> v])

RECURSIVE DictOf(_, _, _)
\* {opp['url']: opp for opp in found_opps}
DictOf(opps, i, d) ==
  IF i > Len(opps) THEN d
  ELSE DictOf(opps, i + 1, DictSet(d, opps[i].url, opps[i]))

\* list({...}.values())
unique_opps(opps) ==
  LET d == DictOf(opps, 1, <<>>) IN [j \in 1..Len(d) |-> d[j].value]

Emoji(type) ==
  CASE type = "wealth" -> ":moneybag:"
    [] type = "pain" -> ":heart:"
    [] type = "partner" -> ":handshake:"
    [] type = "industry" -> ":newspaper:"
    [] OTHER -> ":basketball:"

HeaderBlock(n) ==
  [type |-> "header",
   text |-> [type |-> "plain_text",
             text |-> "PDC Daily Monitor: " \o ToString(n) \o " Leads"]]

DividerBlock == [type |-> "divider"]

SectionBlock(opp) ==
  [type |-> "section",
   text |-> [type |-> "mrkdwn",
             text |-> Emoji(opp.type) \o " *" \o opp.source \o "*: <" \o opp.url
                      \o "|" \o opp.title \o ">\n_" \o opp.summary \o "_"]]

\* the opportunities the section loop iterates over
TopOpps(opps) == Slice(unique_opps(opps), SLACK_LIMIT)

Payload(opps) ==
  LET top == TopOpps(opps) IN
  [blocks |-> <<HeaderBlock(Len(unique_opps(opps))), DividerBlock>>
              \o [j \in 1..Len(top) |-> SectionBlock(top[j])]]

(***************************************************************************)
(* The run.  pc is the statement of __main__ being executed, loop_i        *)
(* the position in the handler's loop over queries or subreddits; fetched  *)
(* records what each source descriptor received, in processing order.      *)
(* An environment E tabulates each handler over the feeds, responses and   *)
(* clock readings the sources may deliver, and bounds the run.             *)
(***************************************************************************)
WEBHOOK == "https://hooks.slack.com/services/T0"

ErrorLines ==
  {"Error fetching HoopDirt", "Error fetching NCAA",
   "Error fetching College Confidential"}
  \cup {"Error google search '" \o queries[q].q \o "'" : q \in 1..Len(queries)}
  \cup {"Error fetching r/" \o subreddits[s] : s \in 1..Len(subreddits)}

Failures(lines) == Cardinality({k \in 1..Len(lines) : lines[k] \in ErrorLines})

RECURSIVE Received(_)
\* the number of entries and posts the sources have delivered
Received(log) ==
  IF Len(log) = 0 THEN 0 ELSE Len(Head(log).input.entries) + Received(Tail(log))

Env(hoop, clock, google, ncaa, cc, reddit, maxInput, maxFailures) ==
  [hoop |-> [in \in {[status |-> f.status, entries |-> f.entries, now |-> t] :
                       f \in hoop, t \in clock} |-> get_hoopdirt_news(in, in.now)],
   google |-> [qi \in 1..Len(queries) |-> [feed \in google |-> get_google_alerts(feed, qi)]],
   ncaa |-> [feed \in ncaa |-> get_ncaa_market(feed)],
   cc |-> [feed \in cc |-> get_college_confidential(feed)],
   reddit |-> [si \in 1..Len(subreddits) |->
                 [response \in reddit |-> get_reddit_monitor(response, si)]],
   maxInput |-> maxInput,
   maxFailures |-> maxFailures]

Init ==
  /\ pc = "get_hoopdirt_news"
  /\ loop_i = 1
  /\ found_opps = <<>>
  /\ stdout = <<>>
  /\ fetched = <<>>
  /\ SLACK_WEBHOOK_URL \in {"", WEBHOOK}
  /\ shown = <<>>
  /\ posted = <<>>
  /\ printed = <<>>

\* one handler call (or one iteration of its loop) on an input the source
\* may deliver; the run goes on at next_pc, next_i unless an exception left
\* the handler
Proceed(E, handler, descriptor, next_pc, next_i) ==
  LET room == E.maxInput - Received(fetched)
      spare == E.maxFailures - Failures(stdout)
  IN  \E input \in DOMAIN handler :
        LET h == handler[input] IN
        /\ Len(input.entries) <= room
        /\ Failures(h.lines) <= spare
        /\ found_opps' = found_opps \o h.appended
        /\ stdout' = stdout \o h.lines
        /\ fetched' = Append(fetched, [descriptor |-> descriptor, input |-> input])
        /\ pc' = IF h.raised THEN "crashed" ELSE next_pc
        /\ loop_i' = next_i
        /\ UNCHANGED <<SLACK_WEBHOOK_URL, shown, posted, printed>>

GetHoopdirtNews(E) ==
  /\ pc = "get_hoopdirt_news"
  /\ Proceed(E, E.hoop, "HoopDirt", "get_google_alerts", 1)

GetGoogleAlerts(E) ==
  /\ pc = "get_google_alerts"
  /\ Proceed(E, E.google[loop_i], "Google:" \o queries[loop_i].q,
             IF loop_i = Len(queries) THEN "get_ncaa_market" ELSE pc,
             IF loop_i = Len(queries) THEN 1 ELSE loop_i + 1)

GetNcaaMarket(E) ==
  /\ pc = "get_ncaa_market"
  /\ Proceed(E, E.ncaa, "NCAA", "get_college_confidential", 1)

GetCollegeConfidential(E) ==
  /\ pc = "get_college_confidential"
  /\ Proceed(E, E.cc, "CC", "get_reddit_monitor", 1)

GetRedditMonitor(E) ==
  /\ pc = "get_reddit_monitor"
  /\ Proceed(E, E.reddit[loop_i], "r/" \o subreddits[loop_i],
             IF loop_i = Len(subreddits) THEN "send_slack_alert" ELSE pc,
             IF loop_i = Len(subreddits) THEN 1 ELSE loop_i + 1)

SendSlackAlert ==
  /\ pc = "send_slack_alert"
  /\ pc' = "done"
  /\ IF Len(found_opps) = 0
       THEN /\ stdout' = Append(stdout, "No opportunities found today.")
            /\ UNCHANGED <<shown, posted, printed>>
       ELSE LET n == Len(unique_opps(found_opps))
                found == "Found " \o ToString(n) \o " opportunities."
            IN  /\ shown' = TopOpps(found_opps)
                /\ IF Len(SLACK_WEBHOOK_URL) > 0
                     THEN /\ posted' = <<Payload(found_opps)>>
                          /\ stdout' = Append(stdout, found)
                          /\ UNCHANGED printed
                     ELSE /\ printed' = <<Payload(found_opps)>>
                          /\ stdout' = stdout \o <<found, "No Webhook set. JSON Output:">>
                          /\ UNCHANGED posted
  /\ UNCHANGED <<loop_i, found_opps, fetched, SLACK_WEBHOOK_URL>>

Run(E) ==
  \/ GetHoopdirtNews(E)
  \/ GetGoogleAlerts(E)
  \/ GetNcaaMarket(E)
  \/ GetCollegeConfidential(E)
  \/ GetRedditMonitor(E)
  \/ SendSlackAlert

(***************************************************************************)
(* Environments.                                                           *)
(***************************************************************************)
MaxInput == 2

MaxFailures == 1

SeqsUpTo(S, n) == UNION {[1..m -> S] : m \in 0..n}

OkFeed(entries) == [status |-> "ok", entries |-> entries]

ErrorFeed == [status |-> "error", entries |-> <<>>]

Feeds(S, n) == {OkFeed(e) : e \in SeqsUpTo(S, n)} \cup {ErrorFeed}

OkResponse(children) == [status |-> "ok", entries |-> children]

ErrorResponse == [status |-> "error", entries |-> <<>>]

Responses(S, n) == {OkResponse(c) : c \in SeqsUpTo(S, n)} \cup {ErrorResponse}

\* a clock reading, in seconds
Noon == 3 * Window

Rfc822(local, off) == [fmt |-> "rfc822", local |-> local, off |-> off]

Links == {"https://x/1", "https://www.reddit.com/r/a/1"}

\* entries with a link, and one without
Entries ==
  {[title |-> "Basketball Coach Vacancy", link |-> u] : u \in Links}
  \cup {[title |-> "Basketball Coach Vacancy"]}

Dated(entries, published) ==
  {IF "link" \in DOMAIN e
     THEN [title |-> e.title, link |-> e.link, published |-> published]
     ELSE [title |-> e.title, published |-> published] : e \in entries}

Posts ==
  { [title |-> "Son struggling with confidence", selftext |-> "toxic coach",
     permalink |-> "/r/a/1"],
    [title |-> "Is prep school worth it for my kid", permalink |-> "/r/a/2"],
    [title |-> "My daughter quit"] }

PipelineEnv ==
  Env(Feeds(Dated(Entries, Rfc822(Noon, 0)), MaxInput), {Noon},
      Feeds(Entries, MaxInput), Feeds(Entries, MaxInput), Feeds(Entries, MaxInput),
      Responses(Posts, MaxInput), MaxInput, MaxFailures)

Next == Run(PipelineEnv)

Spec == Init /\ [][Next]_vars

(***************************************************************************)
(* The freshness filter: HoopDirt entries by age and UTC offset, entries   *)
(* with a date in another format and entries without a date.  Each case    *)
(* records the age (now - published, in seconds) its date was built from.  *)
(***************************************************************************)
Ages == {Window - 1, Window, Window + 1, 2 * Window}

Offsets == {0, 0 - 18000}

DateCases ==
  {[published |-> Rfc822(Noon - a + off, off), age |-> a] : a \in Ages, off \in Offsets}

OtherFormat == [fmt |-> "iso8601"]

DatedLinks == {"https://x/1", "https://x/2"}

HoopEntries ==
  {[title |-> "Coach hired", link |-> u, published |-> c.published] :
     u \in DatedLinks, c \in DateCases}
  \cup {[title |-> "Coach hired", link |-> u, published |-> OtherFormat] : u \in DatedLinks}
  \cup {[title |-> "Coach hired", link |-> u] : u \in DatedLinks}

OneEntry == [title |-> "Basketball Coach Vacancy", link |-> "https://x/3"]

SmallFeeds == {OkFeed(<<>>), OkFeed(<<OneEntry>>), ErrorFeed}

QuietFeeds == {OkFeed(<<>>), ErrorFeed}

OnePost == [title |-> "My daughter quit", permalink |-> "/r/a/3"]

SmallResponses == {OkResponse(<<>>), OkResponse(<<OnePost>>), ErrorResponse}

DatesEnv ==
  Env(Feeds(HoopEntries, MaxInput), {Noon}, QuietFeeds, SmallFeeds, QuietFeeds,
      SmallResponses, MaxInput, MaxFailures)

NextDates == Run(DatesEnv)

SpecDates == Init /\ [][NextDates]_vars

(***************************************************************************)
(* The Reddit rules: posts by the keywords their text contains.  Each case *)
(* records the type the post is expected to get ("none": not appended).    *)
(***************************************************************************)
RedditCases ==
  { \* parent ("son"), wealth ("tuition") and pain ("quit")
    [post |-> [title |-> "Son quit", selftext |-> "Tuition?", permalink |-> "/r/a/1"],
     expect |-> "wealth"],
    \* parent ("kid") and pain ("scared", "bench") only
    [post |-> [title |-> "Kid Scared", selftext |-> "bench", permalink |-> "/r/a/2"],
     expect |-> "pain"],
    \* parent ("kid") and wealth ("advisor") only, no selftext key
    [post |-> [title |-> "Advisor for KID", permalink |-> "/r/a/3"],
     expect |-> "wealth"],
    \* parent ("kid"), neither rule
    [post |-> [title |-> "My kid", selftext |-> "", permalink |-> "/r/a/4"],
     expect |-> "none"],
    \* wealth ("tuition") and pain ("quit") keywords, no parent keyword
    [post |-> [title |-> "I quit", selftext |-> "tuition", permalink |-> "/r/a/5"],
     expect |-> "none"] }

RedditPosts == {c.post : c \in RedditCases}

RedditEnv ==
  Env(Feeds(Dated({OneEntry}, Rfc822(Noon, 0)), 1), {Noon}, QuietFeeds, QuietFeeds,
      QuietFeeds,
      Responses(RedditPosts, MaxInput), MaxInput, MaxFailures)

NextReddit == Run(RedditEnv)

SpecReddit == Init /\ [][NextReddit]_vars

(***************************************************************************)
(* Volume: feeds long enough for more than SLACK_LIMIT unique urls.        *)
(***************************************************************************)
Numbered(prefix, n) ==
  OkFeed([j \in 1..n |-> [title |-> "Basketball " \o ToString(j),
                          link |-> prefix \o ToString(j)]])

VolumeEnv ==
  Env({OkFeed(<<>>)} \cup Feeds(Dated({OneEntry}, Rfc822(Noon, 0)), 1), {Noon},
      {Numbered("https://g/a", n) : n \in {0, GOOGLE_TOP + 1}}
        \cup {Numbered("https://g/b", GOOGLE_TOP)},
      SmallFeeds,
      {Numbered("https://c/", n) : n \in {0, 1, CC_TOP, CC_TOP + 1}},
      SmallResponses, 2 * GOOGLE_TOP + CC_TOP + 2 + MaxInput, MaxFailures)

NextVolume == Run(VolumeEnv)

SpecVolume == Init /\ [][NextVolume]_vars

(***************************************************************************)
(* Properties.                                                             *)
(***************************************************************************)
\* the source descriptors in the order __main__ processes them
Descriptors ==
  <<"HoopDirt", "Google:job_query", "Google:partner_query", "NCAA", "CC",
    "r/BasketballTips", "r/YouthSports", "r/Parenting", "r/basketballcoach">>

\* what the handler returned for the k-th descriptor processed
ResultAt(E, k) ==
  LET input == fetched[k].input IN
  IF k = 1 THEN E.hoop[input]
  ELSE IF k <= 3 THEN E.google[k - 1][input]
  ELSE IF k = 4 THEN E.ncaa[input]
  ELSE IF k = 5 THEN E.cc[input]
  ELSE E.reddit[k - 5][input]

\* the k-th descriptor's fetch or parse failed
Failed(E, k) ==
  LET lines == ResultAt(E, k).lines IN \E l \in 1..Len(lines) : lines[l] \in ErrorLines

RECURSIVE Offset(_, _)
\* the number of opportunities appended before the k-th descriptor
Offset(E, k) ==
  IF k = 1 THEN 0 ELSE Offset(E, k - 1) + Len(ResultAt(E, k - 1).appended)

\* the part of found_opps appended while the k-th descriptor was processed
Segment(E, k) ==
  SubSeq(found_opps, Offset(E, k) + 1, Offset(E, k) + Len(ResultAt(E, k).appended))

AtAlert == pc \in {"send_slack_alert", "done"}

Delivered == posted \o printed

HEARTBEAT == "No opportunities found today."

\* display priority of a category: pain and wealth, then partner, then industry
Rank(type) ==
  IF type \in {"pain", "wealth"} THEN 1 ELSE IF type = "partner" THEN 2 ELSE 3

\* the index in found_opps of the first opportunity with this url
FirstIndex(url) ==
  CHOOSE j \in 1..Len(found_opps) :
    /\ found_opps[j].url = url
    /\ \A m \in 1..(j - 1) : found_opps[m].url # url

\* C1: the opportunities send_slack_alert puts into the summary have pairwise
\* distinct urls, and the section blocks of the payload are built from exactly
\* these opportunities.
C1_UniqueUrls ==
  pc = "done" =>
    /\ \A a, b \in 1..Len(shown) : a # b => shown[a].url # shown[b].url
    /\ \A d \in 1..Len(Delivered) :
         SubSeq(Delivered[d].blocks, 3, Len(Delivered[d].blocks))
           = [j \in 1..Len(shown) |-> SectionBlock(shown[j])]

\* C1: a run in which found_opps held the same url twice and the summary was posted
C1_Witness ==
  /\ pc = "done"
  /\ Len(posted) = 1
  /\ Len(shown) >= 1
  /\ \E a, b \in 1..Len(found_opps) : a # b /\ found_opps[a].url = found_opps[b].url

\* C2: the summary lists opportunities by category priority, and opportunities
\* of equal priority in the order they were appended to found_opps.
C2_RankedOrder ==
  pc = "done" =>
    \A a, b \in 1..Len(shown) :
      a < b =>
        /\ Rank(shown[a].type) <= Rank(shown[b].type)
        /\ Rank(shown[a].type) = Rank(shown[b].type)
             => FirstIndex(shown[a].url) < FirstIndex(shown[b].url)

\* C3: of the opportunities sharing a url, the summary retains the first one
\* appended, unless a later one has a higher-priority category than the first.
C3_FirstRetained ==
  pc = "done" =>
    \A a \in 1..Len(shown) :
      LET first == found_opps[FirstIndex(shown[a].url)]
          later == {j \in 1..Len(found_opps) : found_opps[j].url = first.url}
      IN  IF \E j \in later : Rank(found_opps[j].type) < Rank(first.type)
            THEN Rank(shown[a].type) < Rank(first.type)
            ELSE shown[a].type = first.type /\ shown[a].summary = first.summary

\* C4: no failure of a source ends the run: every descriptor is processed, in
\* order, before send_slack_alert, and what a non-failing descriptor appended
\* is in found_opps when send_slack_alert runs.
C4_FailuresIsolated ==
  /\ pc # "crashed"
  /\ \A k \in 1..Len(fetched) : fetched[k].descriptor = Descriptors[k]
  /\ AtAlert =>
       /\ Len(fetched) = Len(Descriptors)
       /\ \A k \in 1..Len(fetched) :
            ~Failed(PipelineEnv, k) =>
              Segment(PipelineEnv, k) = ResultAt(PipelineEnv, k).appended
       /\ Len(found_opps) = Offset(PipelineEnv, Len(fetched) + 1)

\* C4: send_slack_alert is reached after a source failed and a later source
\* appended an opportunity
C4_Witness ==
  /\ pc = "send_slack_alert"
  /\ \E k, m \in 1..Len(fetched) :
       /\ k < m
       /\ Failed(PipelineEnv, k)
       /\ ~Failed(PipelineEnv, m)
       /\ Len(ResultAt(PipelineEnv, m).appended) > 0

\* C9: with no opportunity found, the heartbeat goes out by the delivery path:
\* to the webhook when one is configured, printed otherwise; no "0 Leads"
\* summary is built.
C9_HeartbeatDelivered ==
  (pc = "done" /\ Len(found_opps) = 0) =>
    /\ IF Len(SLACK_WEBHOOK_URL) > 0
         THEN Len(posted) = 1
         ELSE stdout[Len(stdout)] = HEARTBEAT
    /\ \A d \in 1..Len(Delivered) : Delivered[d].blocks[1] # HeaderBlock(0)

RECURSIVE CleanOpps(_, _)
\* what the first k descriptors appended, failed descriptors counting for nothing
CleanOpps(E, k) ==
  IF k = 0 THEN <<>>
  ELSE CleanOpps(E, k - 1) \o (IF Failed(E, k) THEN <<>> ELSE ResultAt(E, k).appended)

\* C10: a descriptor whose processing failed contributes no entry to the
\* found_opps that send_slack_alert sees.
C10_FailedYieldsNothing ==
  AtAlert => found_opps = CleanOpps(PipelineEnv, Len(fetched))

\* the opportunities in found_opps that carry this source label
FromSource(source) ==
  LET Here(opp) == opp.source = source IN SelectSeq(found_opps, Here)

\* the feed HoopDirt delivered
HoopFeed == fetched[1].input

IsDated(entry) ==
  /\ "published" \in DOMAIN entry
  /\ \E c \in DateCases : c.published = entry.published

\* now - published of a dated entry, as its case records it
AgeOf(entry) == (CHOOSE c \in DateCases : c.published = entry.published).age

RECURSIVE Reached(_)
\* the entries up to the first one without a parsable date
Reached(entries) ==
  IF Len(entries) = 0 \/ ~IsDated(Head(entries)) THEN <<>>
  ELSE <<Head(entries)>> \o Reached(Tail(entries))

HoopOpps(entries) == [j \in 1..Len(entries) |-> HoopDirtOpp(entries[j])]

\* C5: a HoopDirt entry with no publish date, or one that does not parse, is
\* appended like a fresh one, and the entries after it are still processed.
C5_FailOpenDates ==
  (Len(fetched) >= 1 /\ HoopFeed.status = "ok") =>
    LET Kept(entry) == ~IsDated(entry) \/ AgeOf(entry) <= Window
    IN  FromSource("HoopDirt") = HoopOpps(SelectSeq(HoopFeed.entries, Kept))

\* C6: of the entries the freshness filter gets to see (the loop reaches them
\* and their date parses), those of age at most 24 hours are appended, the
\* one of age exactly 24 hours included, and those of age 24 hours and one
\* second or more are not.
C6_WindowEdge ==
  (Len(fetched) >= 1 /\ HoopFeed.status = "ok") =>
    LET Kept(entry) == AgeOf(entry) = Window \/ ~(AgeOf(entry) >= Window + 1)
    IN  FromSource("HoopDirt") = HoopOpps(SelectSeq(Reached(HoopFeed.entries), Kept))

\* C6: a feed with an entry exactly 24 hours old, which is appended, and one a
\* second older, which is not
C6_Witness ==
  /\ Len(fetched) = 1
  /\ HoopFeed.status = "ok"
  /\ Len(HoopFeed.entries) = 2
  /\ \A j \in 1..2 : IsDated(HoopFeed.entries[j])
  /\ AgeOf(HoopFeed.entries[1]) = Window + 1
  /\ AgeOf(HoopFeed.entries[2]) = Window
  /\ found_opps = <<HoopDirtOpp(HoopFeed.entries[2])>>

\* the type the Reddit rules are expected to give a post
ExpectOf(post) == (CHOOSE c \in RedditCases : c.post = post).expect

\* url and type of each opportunity
UrlTypes(opps) == [j \in 1..Len(opps) |-> [url |-> opps[j].url, type |-> opps[j].type]]

ExpectedOpps(posts) ==
  LET Matched(post) == ExpectOf(post) # "none"
      matched == SelectSeq(posts, Matched)
  IN  [j \in 1..Len(matched) |->
         [url |-> "https://www.reddit.com" \o matched[j].permalink,
          type |-> ExpectOf(matched[j])]]

\* C7: each subreddit's posts are appended by the rules in the order wealth,
\* pain: once with type wealth when the text has a wealth and a pain keyword,
\* with type pain when it has only pain keywords, not at all when no rule
\* matches or the text has no parent keyword.
C7_WealthBeforePain ==
  \A k \in 6..Len(fetched) :
    fetched[k].input.status = "ok" =>
      UrlTypes(FromSource("Reddit (r/" \o subreddits[k - 5] \o ")"))
        = ExpectedOpps(fetched[k].input.entries)

\* C7: a subreddit delivered a post with a wealth and a pain keyword, then one
\* with pain keywords only; they were appended as wealth and as pain
C7_Witness ==
  /\ Len(fetched) = 6
  /\ fetched[6].input.status = "ok"
  /\ Len(fetched[6].input.entries) = 2
  /\ fetched[6].input.entries[1].title = "Son quit"
  /\ fetched[6].input.entries[2].title = "Kid Scared"
  /\ UrlTypes(found_opps) =
       << [url |-> "https://www.reddit.com/r/a/1", type |-> "wealth"],
          [url |-> "https://www.reddit.com/r/a/2", type |-> "pain"] >>

\* the deduplicated opportunities in ranked order: by priority, then as found
Ranked(opps) ==
  LET IsLead(opp) == Rank(opp.type) = 1
      IsPartner(opp) == Rank(opp.type) = 2
      IsIndustry(opp) == Rank(opp.type) = 3
  IN  SelectSeq(opps, IsLead) \o SelectSeq(opps, IsPartner) \o SelectSeq(opps, IsIndustry)

\* C8: with more than 15 unique opportunities the summary has exactly 15
\* opportunity lines, the top 15 of the ranked order; with n <= 15 it has n.
C8_Top15 ==
  (pc = "done" /\ Len(found_opps) > 0) =>
    LET unique == unique_opps(found_opps)
        n == Len(unique)
    IN  IF n > SLACK_LIMIT
          THEN Len(shown) = SLACK_LIMIT /\ shown = Slice(Ranked(unique), SLACK_LIMIT)
          ELSE Len(shown) = n

====
